---- MODULE Spec2Model ----
(***************************************************************************)
(* Model of the incremental transaction synchronisation of the Binance     *)
(* orchestrator: BinanceSyncService (calculateTimeRange,                   *)
(* divideTimeRangeIntoChunks, syncDeposits, syncWithdrawals) and the       *)
(* BinanceDbService / BinanceProxyService calls it awaits.                 *)
(*                                                                         *)
(* One sync run is a sequence of awaits.  The variable pc names the await  *)
(* the run is suspended on; one action is "that await settles (resolves or *)
(* rejects) and the code runs on to the next await or to its return/throw".*)
(* The three remote services (upstream history, bulk store, job ledger)    *)
(* are the environment: each call may resolve or reject.                   *)
(*                                                                         *)
(* Time is scaled: one model unit stands for one millisecond, and the      *)
(* chunk size, page limit and initial lookback are scaled down with it     *)
(* (the code's "+ 1" stays 1).                                             *)
(***************************************************************************)
EXTENDS Integers, Sequences, FiniteSets, TLC

VARIABLES
    now,            \* Date.now()
    upstream,       \* the upstream history: records ascending by timestamp
    ledger,         \* rows of the sync-job ledger, row i has id i
    db,             \* upstream records the bulk store holds (its dedup keys)
    pc,             \* the await the run is suspended on, or "idle"/"done"
    jobType,        \* 'deposit' | 'withdraw'
    forceStartTime, \* options.startTime  (<<>> is undefined)
    forceEndTime,   \* options.endTime    (<<>> is undefined)
    startTime,      \* timeRange.startTime
    endTime,        \* timeRange.endTime
    chunks,         \* divideTimeRangeIntoChunks(startTime, endTime)
    chunkIdx,       \* position of the for-of loop in chunks
    chunkStartTime, \* the page cursor
    deposits,       \* the page just fetched (indexes into upstream)
    syncJobId,      \* null | undefined | id
    totalRecordsProcessed,
    totalRecordsInserted,
    totalRecordsDuplicated,
    totalRecordsFailed,
    finalStatus,
    outcome,        \* what the caller got: nothing yet, a result, or an exception
    calls,          \* sync calls made so far
    log,            \* history: the remote calls of this run, in the order they settled
    lastFinal,      \* history: per job type, window end of the run that last
                    \* finalized success/partial, if no later run of the type ended otherwise
    pageLimit,      \* this.MAX_RECORDS_PER_REQUEST, the readonly field of the service
    other,          \* a second call of the sync operation, suspended at its await
    prev,           \* history: the call that ended before the current one started
    tx              \* the record handed to a transform function, then what it gave

vars == <<now, upstream, ledger, db, pc, jobType, forceStartTime, forceEndTime,
          startTime, endTime, chunks, chunkIdx, chunkStartTime, deposits,
          syncJobId, totalRecordsProcessed, totalRecordsInserted,
          totalRecordsDuplicated, totalRecordsFailed, finalStatus, outcome,
          calls, log, lastFinal, pageLimit, other, prev, tx>>

runLocals == <<startTime, endTime, chunks, chunkIdx, chunkStartTime, deposits,
               syncJobId, totalRecordsProcessed, totalRecordsInserted,
               totalRecordsDuplicated, totalRecordsFailed, finalStatus>>

\* ---------------------------------------------------------------- bounds
ChunkSizeMs == 2
MAX_RECORDS_PER_REQUEST == 2
InitialSyncMs == 4
MaxRecords == 3
MaxRecordTime == 3
MaxTime == 5
MaxRuns == 2
MaxAmountLen == 3

\* ---------------------------------------------------------------- values
Undefined == <<>>
Some(v) == <<v>>
\* syncJobId before the job is created (null), and the id read from a create
\* response that carries no usable id (undefined or 0: both falsy)
NullId == -1
\* JSON null where a timestamp is expected, and its value in arithmetic
\* and comparisons (Number(null) is 0)
Null == -1000
ToNumber(v) == IF v = Null THEN 0 ELSE v
\* getLastSuccessfulSyncJob resolved with null (404)
NoJob == [kind |-> "null"]
NoId == 0
JobTypes == {"deposit", "withdraw"}
\* what the caller of the sync operation has got
NoOutcome == [kind |-> "none"]
Thrown == [kind |-> "thrown"]
Min(a, b) == IF a < b THEN a ELSE b

\* ------------------------------------------------------------ the chunker
\* while (currentStart < endTime) { currentEnd = min(currentStart + chunkSizeMs, endTime);
\*   push; currentStart = currentEnd + 1 }
\* a chunker whose next chunk starts at the previous chunk's end (no + 1)
RECURSIVE ChunkLoopOverlapping(_, _, _)
ChunkLoopOverlapping(currentStart, end, acc) ==
    IF ToNumber(currentStart) < end
    THEN LET currentEnd == Min(ToNumber(currentStart) + ChunkSizeMs, end)
         IN  ChunkLoopOverlapping(currentEnd, end,
                       Append(acc, [startTime |-> currentStart, endTime |-> currentEnd]))
    ELSE acc

RECURSIVE ChunkLoop(_, _, _)
ChunkLoop(currentStart, end, acc) ==
    IF ToNumber(currentStart) < end
    THEN LET currentEnd == Min(ToNumber(currentStart) + ChunkSizeMs, end)
         IN  ChunkLoop(currentEnd + 1, end,
                       Append(acc, [startTime |-> currentStart, endTime |-> currentEnd]))
    ELSE acc

divideTimeRangeIntoChunks(start, end) == ChunkLoop(start, end, <<>>)

\* ------------------------------------------------------- the environment
\* An upstream record: its timestamp (insertTime, or completeTime || applyTime)
\* and its status (1 is a successful deposit).
Records == [ts : 1..MaxRecordTime, status : {0, 1}]

IsAscending(s) == \A i \in 1..(Len(s) - 1) : s[i].ts <= s[i + 1].ts

Histories(n) == {s \in [1..n -> Records] : IsAscending(s)}

\* GET .../history?startTime&endTime&limit: the first `limit` records, in
\* upstream order, whose timestamp lies in [start, end].
UpstreamPage(start, end, limit) ==
    LET idx  == [i \in 1..Len(upstream) |-> i]
        hits == SelectSeq(idx, LAMBDA i : start <= upstream[i].ts /\ upstream[i].ts <= end)
    IN  SubSeq(hits, 1, Min(limit, Len(hits)))

\* GET /api/sync-jobs/last-successful?jobType=: the most recent job of the type
\* that is success or partial and carries a nextStartTime; 0 is "404".
LastResumable(jt) ==
    LET ok == {i \in 1..Len(ledger) :
                 /\ ledger[i].jobType = jt
                 /\ ledger[i].status \in {"success", "partial"}
                 /\ ledger[i].nextStartTime # Undefined}
    IN  IF ok = {} THEN 0 ELSE CHOOSE i \in ok : \A j \in ok : j <= i

\* GET /api/sync-jobs/next-time-range?jobType=: the ledger's own answer.
LedgerNextTimeRange(jt) ==
    LET last == LastResumable(jt)
    IN  IF last # 0
        THEN [startTime |-> ledger[last].nextStartTime[1], endTime |-> now]
        ELSE [startTime |-> now - InitialSyncMs, endTime |-> now]

\* ------------------------------------------------------ pure code helpers
\* transformDepositToTransaction throws unless status === 1;
\* transformWithdrawalToTransaction has no throw.
TransformOk(jt, i) == jt = "withdraw" \/ upstream[i].status = 1

\* a transform loop that gives up the whole batch on the first failure
TransactionsAllOrNothing(jt, page) ==
    IF \A n \in 1..Len(page) : TransformOk(jt, page[n]) THEN page ELSE <<>>

\* a transform loop in which no transformation fails
TransactionsUnchecked(jt, page) == page

\* the transform loop: the transactions pushed, in page order
Transactions(jt, page) == SelectSeq(page, LAMBDA i : TransformOk(jt, i))

\* a derivation without partial
FinalStatusSuccessOrFailed(processed, failed) ==
    IF failed = 0 THEN "success" ELSE "failed"

\* a derivation that is partial only when more was processed than failed
FinalStatusByMajority(processed, failed) ==
    IF failed = 0 THEN "success" ELSE IF processed > failed THEN "partial" ELSE "failed"

\* totalRecordsFailed === 0 ? 'success' : totalRecordsProcessed > 0 ? 'partial' : 'failed'
FinalStatus(processed, failed) ==
    IF failed = 0 THEN "success" ELSE IF processed > 0 THEN "partial" ELSE "failed"

\* JS truthiness of an optional number: defined and not 0
Truthy(opt) == opt # Undefined /\ opt[1] # 0

SeqToSet(s) == {s[i] : i \in 1..Len(s)}

\* ---------------------------------------------------------------- Init
\* the variables of one call of the sync operation, as one value
RunState ==
    [pc |-> pc, jobType |-> jobType, forceStartTime |-> forceStartTime,
     forceEndTime |-> forceEndTime, startTime |-> startTime, endTime |-> endTime,
     chunks |-> chunks, chunkIdx |-> chunkIdx, chunkStartTime |-> chunkStartTime,
     deposits |-> deposits, syncJobId |-> syncJobId,
     totalRecordsProcessed |-> totalRecordsProcessed,
     totalRecordsInserted |-> totalRecordsInserted,
     totalRecordsDuplicated |-> totalRecordsDuplicated,
     totalRecordsFailed |-> totalRecordsFailed,
     finalStatus |-> finalStatus, outcome |-> outcome, log |-> log]

\* a call that has not been made yet
IdleRun ==
    [pc |-> "idle", jobType |-> "deposit", forceStartTime |-> Undefined,
     forceEndTime |-> Undefined, startTime |-> 0, endTime |-> 0,
     chunks |-> <<>>, chunkIdx |-> 0, chunkStartTime |-> 0,
     deposits |-> <<>>, syncJobId |-> NullId,
     totalRecordsProcessed |-> 0, totalRecordsInserted |-> 0,
     totalRecordsDuplicated |-> 0, totalRecordsFailed |-> 0,
     finalStatus |-> "success", outcome |-> NoOutcome, log |-> <<>>]

\* no call has ended yet
NoRun == [kind |-> "none"]

\* no record has been handed to a transform function
NoRecord == [kind |-> "none"]

\* every remote call of the run resolved and the loader rejected no record
Clean(l) ==
    \A i \in 1..Len(l) :
        /\ l[i].ok
        /\ l[i].kind = "bulk" => l[i].loaderFailed = 0

\* The service before the first call, for an upstream history `h`.
ServiceInit(h, limit, jobs, store) ==
    /\ now = InitialSyncMs
    /\ calls = 0
    /\ upstream = h
    /\ ledger = jobs
    /\ db = store
    /\ pageLimit = limit
    /\ other = IdleRun
    /\ prev = NoRun
    /\ pc = "idle"
    /\ jobType = "deposit"
    /\ forceStartTime = Undefined
    /\ forceEndTime = Undefined
    /\ startTime = 0
    /\ endTime = 0
    /\ chunks = <<>>
    /\ chunkIdx = 0
    /\ chunkStartTime = 0
    /\ deposits = <<>>
    /\ syncJobId = NullId
    /\ totalRecordsProcessed = 0
    /\ totalRecordsInserted = 0
    /\ totalRecordsDuplicated = 0
    /\ totalRecordsFailed = 0
    /\ finalStatus = "success"
    /\ outcome = NoOutcome
    /\ log = <<>>
    /\ lastFinal = [jt \in JobTypes |->
                        IF \E i \in 1..Len(jobs) : jobs[i].jobType = jt
                        THEN Some(jobs[Len(jobs)].endTime) ELSE Undefined]

\* The state before the first call, with no record at a transform function.
InitWith(h, limit, jobs, store) ==
    /\ tx = NoRecord
    /\ ServiceInit(h, limit, jobs, store)

\* One call against any upstream history of up to MaxRecords records.
Init ==
    \E n \in 0..MaxRecords : \E h \in Histories(n) :
        InitWith(h, MAX_RECORDS_PER_REQUEST, <<>>, {})

\* Up to MaxRuns calls, one after the other, against a short history.
ResumeHistories ==
    {<<>>,
     <<[ts |-> 1, status |-> 1]>>,
     <<[ts |-> 1, status |-> 1], [ts |-> 2, status |-> 0]>>}

\* the bulk store is shared with the CSV import: it may already hold the
\* first deposit of the history
ResumeStores(h) ==
    IF Len(h) = 0 THEN {{}} ELSE {{}, {<<"deposit", 1>>}}

InitResume ==
    \E h \in ResumeHistories : \E store \in ResumeStores(h) :
        InitWith(h, MAX_RECORDS_PER_REQUEST, <<>>, store)

\* ------------------------------------------------------------- the run
\* a job row as POST /api/sync-jobs stores it
NewJob(jt, start, end) ==
    [jobType |-> jt, startTime |-> start, endTime |-> end, status |-> "partial",
     counts |-> Undefined, errorMessage |-> FALSE, nextStartTime |-> Undefined]

\* a terminal payload whose resumption point is the window end itself
FinalPayloadAtEnd ==
    [status |-> finalStatus,
     counts |-> <<totalRecordsProcessed, totalRecordsInserted,
                  totalRecordsDuplicated, totalRecordsFailed>>,
     errorMessage |-> FALSE,
     nextStartTime |-> Some(endTime)]

\* a terminal payload that carries an error message when records failed
FinalPayloadWithMessage ==
    [status |-> finalStatus,
     counts |-> <<totalRecordsProcessed, totalRecordsInserted,
                  totalRecordsDuplicated, totalRecordsFailed>>,
     errorMessage |-> (totalRecordsFailed > 0),
     nextStartTime |-> Some(endTime + 1)]

\* PATCH /api/sync-jobs/{id} with the terminal payload of the try block
FinalPayload ==
    [status |-> finalStatus,
     counts |-> <<totalRecordsProcessed, totalRecordsInserted,
                  totalRecordsDuplicated, totalRecordsFailed>>,
     errorMessage |-> FALSE,
     nextStartTime |-> Some(endTime + 1)]

\* a catch payload that closes the window as if it had been synchronised
FailedPayloadSkips ==
    [status |-> "partial", counts |-> Undefined, errorMessage |-> TRUE,
     nextStartTime |-> Some(endTime + 1)]

\* a catch payload that also writes the resumption point
FailedPayloadWithNext ==
    [status |-> "failed", counts |-> Undefined, errorMessage |-> TRUE,
     nextStartTime |-> Some(endTime + 1)]

\* a catch payload that reports partial once records were processed
FailedPayloadPartial ==
    [status |-> IF totalRecordsProcessed > 0 THEN "partial" ELSE "failed",
     counts |-> Undefined, errorMessage |-> TRUE, nextStartTime |-> Undefined]

\* PATCH /api/sync-jobs/{id} with the payload of the catch block
FailedPayload ==
    [status |-> "failed", counts |-> Undefined, errorMessage |-> TRUE,
     nextStartTime |-> Undefined]

\* the ledger row after a PATCH: the fields the payload carries replace the row's
Patched(row, payload) ==
    [row EXCEPT !.status = payload.status,
                !.counts = IF payload.counts = Undefined THEN @ ELSE payload.counts,
                !.errorMessage = IF payload.errorMessage THEN TRUE ELSE @,
                !.nextStartTime = IF payload.nextStartTime = Undefined THEN @
                                  ELSE payload.nextStartTime]

\* a chunk loop that takes the chunks from the last to the first
AdvanceFromLast(i, status, processed, failed) ==
    /\ chunkIdx' = i
    /\ IF i <= Len(chunks)
       THEN /\ pc' = "fetch"
            /\ chunkStartTime' = chunks[Len(chunks) + 1 - i].startTime
            /\ finalStatus' = status
       ELSE /\ pc' = "updateSyncJob"
            /\ chunkStartTime' = chunkStartTime
            /\ finalStatus' = FinalStatus(processed, failed)

\* the for-of loop takes chunk i, or is over: then finalStatus is computed and
\* the terminal updateSyncJob is awaited
Advance(i, status, processed, failed) ==
    /\ chunkIdx' = i
    /\ IF i <= Len(chunks)
       THEN /\ pc' = "fetch"
            /\ chunkStartTime' = chunks[i].startTime
            /\ finalStatus' = status
       ELSE /\ pc' = "updateSyncJob"
            /\ chunkStartTime' = chunkStartTime
            /\ finalStatus' = FinalStatus(processed, failed)

\* a page loop that fetches again after every non-empty page
ContinueUntilEmpty(page, status, processed, failed) ==
    IF Len(page) > 0
    THEN /\ pc' = "fetch"
         /\ chunkIdx' = chunkIdx
         /\ chunkStartTime' = upstream[page[Len(page)]].ts + 1
         /\ finalStatus' = status
    ELSE Advance(chunkIdx + 1, status, processed, failed)

\* a page loop whose cursor restarts at the last record of a full page
ContinueFromLastRecord(page, status, processed, failed) ==
    IF Len(page) = pageLimit
    THEN /\ pc' = "fetch"
         /\ chunkIdx' = chunkIdx
         /\ chunkStartTime' = upstream[page[Len(page)]].ts
         /\ finalStatus' = status
    ELSE Advance(chunkIdx + 1, status, processed, failed)

\* the end of the while body: a full page moves the cursor past its last
\* record and fetches again, a short page ends the chunk
Continue(page, status, processed, failed) ==
    IF Len(page) = pageLimit
    THEN /\ pc' = "fetch"
         /\ chunkIdx' = chunkIdx
         /\ chunkStartTime' = upstream[page[Len(page)]].ts + 1
         /\ finalStatus' = status
    ELSE Advance(chunkIdx + 1, status, processed, failed)

\* a result that reports as processed only what the loader took
ResultProcessedAsLoaded ==
    [kind |-> "result", status |-> finalStatus,
     recordsProcessed |-> totalRecordsInserted + totalRecordsDuplicated,
     recordsInserted |-> totalRecordsInserted,
     recordsDuplicated |-> totalRecordsDuplicated,
     recordsFailed |-> totalRecordsFailed,
     errorMessage |-> FALSE,
     nextStartTime |-> Some(endTime + 1)]

\* the SyncJobResult of the return statement
Result ==
    [kind |-> "result", status |-> finalStatus,
     recordsProcessed |-> totalRecordsProcessed,
     recordsInserted |-> totalRecordsInserted,
     recordsDuplicated |-> totalRecordsDuplicated,
     recordsFailed |-> totalRecordsFailed,
     errorMessage |-> FALSE,
     nextStartTime |-> Some(endTime + 1)]

\* the run ends: the caller gets `out`
Return(out) ==
    /\ pc' = "done"
    /\ outcome' = out
    /\ lastFinal' = [lastFinal EXCEPT ![jobType] =
                        IF out.kind = "result" /\ out.status \in {"success", "partial"}
                        THEN Some(endTime) ELSE Undefined]

\* the window is resolved: chunks are cut and createSyncJob is awaited
Resolved(range) ==
    /\ startTime' = range.startTime
    /\ endTime' = range.endTime
    /\ chunks' = divideTimeRangeIntoChunks(range.startTime, range.endTime)
    /\ pc' = "createSyncJob"

\* options.startTime / options.endTime as the controller passes them
ForceStartTimes == {Undefined, Some(0), Some(5)}
ForceEndTimes == {Undefined, Some(3), Some(5)}

\* a resolver that cuts an explicit window at the current time
ForcedRangeUntilNow(fs, fe) ==
    [startTime |-> fs[1], endTime |-> Min(fe[1], now)]

\* calculateTimeRange, both forced times given: they are returned as they are
ForcedRange(fs, fe) ==
    [startTime |-> fs[1], endTime |-> fe[1]]

\* syncDeposits / syncWithdrawals is called
SyncStart(jt, fs, fe, binanceUserId, budget) ==
    /\ pc \in {"idle", "done"}
    /\ calls < budget
    \* WithdrawResponse.status is never read by the sync: a history served to
    \* a withdrawal sync is represented with status 1 throughout
    /\ jt = "withdraw" => \A r \in 1..Len(upstream) : upstream[r].status = 1
    /\ calls' = calls + 1
    /\ jobType' = jt
    /\ forceStartTime' = fs
    /\ forceEndTime' = fe
    /\ chunkIdx' = 0
    /\ chunkStartTime' = 0
    /\ deposits' = <<>>
    /\ syncJobId' = NullId
    /\ totalRecordsProcessed' = 0
    /\ totalRecordsInserted' = 0
    /\ totalRecordsDuplicated' = 0
    /\ totalRecordsFailed' = 0
    /\ finalStatus' = "success"
    /\ log' = <<>>
    /\ IF ~binanceUserId
       THEN \* throw new Error('binanceUserId is required ...'), outside the try
            /\ pc' = "done"
            /\ outcome' = Thrown
            /\ startTime' = 0 /\ endTime' = 0 /\ chunks' = <<>>
            /\ UNCHANGED lastFinal
       ELSE /\ outcome' = NoOutcome
            /\ UNCHANGED lastFinal
            /\ IF fs # Undefined /\ fe # Undefined
               THEN Resolved(ForcedRange(fs, fe))
               ELSE /\ pc' = "getNextTimeRange"
                    /\ startTime' = 0 /\ endTime' = 0 /\ chunks' = <<>>
    /\ prev' = IF pc = "done"
               THEN [kind |-> "run", jobType |-> jobType, startTime |-> startTime,
                     endTime |-> endTime, outcome |-> outcome, clean |-> Clean(log),
                     bounds |-> <<forceStartTime, forceEndTime>>,
                     fetchAborted |-> \E i \in 1..Len(log) :
                                         log[i].kind = "fetch" /\ ~log[i].ok]
               ELSE prev
    /\ UNCHANGED <<tx, pageLimit, other, now, upstream, ledger, db>>

\* a resolver that resumes at the last job's window end instead of its nextStartTime
ResumeRangeFromEnd(lastJob) ==
    [startTime |-> lastJob.endTime, endTime |-> now]

\* a resolver that resumes at the start of the last job's window
ResumeRangeFromStart(lastJob) ==
    [startTime |-> lastJob.startTime, endTime |-> now]

\* calculateTimeRange, lastJob branch: { startTime: lastJob.nextStartTime, endTime: Date.now() }
ResumeRange(lastJob) ==
    [startTime |-> lastJob.nextStartTime[1], endTime |-> now]

\* a first execution that syncs from the epoch
DefaultRangeFromEpoch ==
    LET end == IF Truthy(forceEndTime) THEN forceEndTime[1] ELSE now
    IN  [startTime |-> IF Truthy(forceStartTime) THEN forceStartTime[1] ELSE 0,
         endTime |-> end]

\* calculateTimeRange, first execution: forceEndTime || Date.now(),
\* forceStartTime || (endTime - INITIAL_SYNC_DAYS days)
DefaultRange ==
    LET end == IF Truthy(forceEndTime) THEN forceEndTime[1] ELSE now
    IN  [startTime |-> IF Truthy(forceStartTime) THEN forceStartTime[1]
                       ELSE end - InitialSyncMs,
         endTime |-> end]

\* the remote call the run awaited has settled: it is appended to the history
Logged(entry) == log' = Append(log, entry)

\* calculateTimeRange: getNextTimeRange resolves
NextTimeRangeResolves ==
    /\ pc = "getNextTimeRange"
    /\ Logged([kind |-> "range", ok |-> TRUE])
    /\ Resolved(LedgerNextTimeRange(jobType))
    /\ UNCHANGED <<tx, pageLimit, other, prev, now, upstream, ledger, db, jobType, forceStartTime, forceEndTime,
                   chunkIdx, chunkStartTime, deposits, syncJobId,
                   totalRecordsProcessed, totalRecordsInserted,
                   totalRecordsDuplicated, totalRecordsFailed, finalStatus,
                   outcome, calls, lastFinal>>

\* calculateTimeRange: getNextTimeRange rejects, the catch asks for the last job
NextTimeRangeRejects ==
    /\ pc = "getNextTimeRange"
    /\ Logged([kind |-> "range", ok |-> FALSE])
    /\ pc' = "getLastSuccessfulSyncJob"
    /\ UNCHANGED <<tx, pageLimit, other, prev, now, upstream, ledger, db, jobType, forceStartTime, forceEndTime,
                   outcome, calls, lastFinal>>
    /\ UNCHANGED runLocals

\* calculateTimeRange: getLastSuccessfulSyncJob resolves with `lastJob`;
\* if (lastJob && typeof lastJob === 'object' && 'nextStartTime' in lastJob)
LastSuccessfulSyncJobReturns(lastJob) ==
    /\ pc = "getLastSuccessfulSyncJob"
    /\ Logged([kind |-> "last", ok |-> TRUE, job |-> lastJob])
    /\ IF lastJob # NoJob /\ lastJob.nextStartTime # Undefined
       THEN Resolved(ResumeRange(lastJob))
       ELSE Resolved(DefaultRange)
    /\ UNCHANGED <<tx, pageLimit, other, prev, now, upstream, ledger, db, jobType, forceStartTime, forceEndTime,
                   chunkIdx, chunkStartTime, deposits, syncJobId,
                   totalRecordsProcessed, totalRecordsInserted,
                   totalRecordsDuplicated, totalRecordsFailed, finalStatus,
                   outcome, calls, lastFinal>>

\* calculateTimeRange: getLastSuccessfulSyncJob resolves with the ledger's
\* last resumable job, or with null (404)
LastSuccessfulSyncJobResolves ==
    LET last == LastResumable(jobType)
    IN  LastSuccessfulSyncJobReturns(IF last # 0 THEN ledger[last] ELSE NoJob)

\* calculateTimeRange: getLastSuccessfulSyncJob rejects inside the catch; the
\* error leaves calculateTimeRange, syncJobId is still null, the run throws
LastSuccessfulSyncJobRejects ==
    /\ pc = "getLastSuccessfulSyncJob"
    /\ Logged([kind |-> "last", ok |-> FALSE])
    /\ Return(Thrown)
    /\ finalStatus' = "failed"
    /\ UNCHANGED <<tx, pageLimit, other, prev, now, upstream, ledger, db, jobType, forceStartTime, forceEndTime,
                   startTime, endTime, chunks, chunkIdx, chunkStartTime, deposits,
                   syncJobId, totalRecordsProcessed, totalRecordsInserted,
                   totalRecordsDuplicated, totalRecordsFailed, calls>>

\* createSyncJob resolves with the created job: the chunk loop starts
CreateSyncJobResolves ==
    /\ pc = "createSyncJob"
    /\ Logged([kind |-> "create", ok |-> TRUE, id |-> Len(ledger) + 1])
    /\ ledger' = Append(ledger, NewJob(jobType, startTime, endTime))
    /\ syncJobId' = Len(ledger) + 1
    /\ Advance(1, finalStatus, totalRecordsProcessed, totalRecordsFailed)
    /\ UNCHANGED <<tx, pageLimit, other, prev, now, upstream, db, jobType, forceStartTime, forceEndTime,
                   startTime, endTime, chunks, deposits,
                   totalRecordsProcessed, totalRecordsInserted,
                   totalRecordsDuplicated, totalRecordsFailed,
                   outcome, calls, lastFinal>>

\* createSyncJob resolves with a body that has no usable id: the code throws,
\* and in the catch syncJobId !== null holds (it is undefined or 0)
CreateSyncJobNoId ==
    /\ pc = "createSyncJob"
    /\ Logged([kind |-> "create", ok |-> TRUE, id |-> NoId])
    /\ syncJobId' = NoId
    /\ finalStatus' = "failed"
    /\ pc' = "updateSyncJobFailed"
    /\ UNCHANGED <<tx, pageLimit, other, prev, now, upstream, ledger, db, jobType, forceStartTime, forceEndTime,
                   startTime, endTime, chunks, chunkIdx, chunkStartTime, deposits,
                   totalRecordsProcessed, totalRecordsInserted,
                   totalRecordsDuplicated, totalRecordsFailed,
                   outcome, calls, lastFinal>>

\* a run that goes on untracked when createSyncJob rejects
CreateSyncJobRejectsRunsUntracked ==
    /\ pc = "createSyncJob"
    /\ Logged([kind |-> "create", ok |-> FALSE, id |-> NullId])
    /\ Advance(1, finalStatus, totalRecordsProcessed, totalRecordsFailed)
    /\ UNCHANGED <<tx, pageLimit, other, prev, now, upstream, ledger, db, jobType, forceStartTime, forceEndTime,
                   startTime, endTime, chunks, deposits, syncJobId,
                   totalRecordsProcessed, totalRecordsInserted,
                   totalRecordsDuplicated, totalRecordsFailed,
                   outcome, calls, lastFinal>>

\* createSyncJob rejects: syncJobId is null, no update, the error is rethrown
CreateSyncJobRejects ==
    /\ pc = "createSyncJob"
    /\ Logged([kind |-> "create", ok |-> FALSE, id |-> NullId])
    /\ Return(Thrown)
    /\ finalStatus' = "failed"
    /\ UNCHANGED <<tx, pageLimit, other, prev, now, upstream, ledger, db, jobType, forceStartTime, forceEndTime,
                   startTime, endTime, chunks, chunkIdx, chunkStartTime, deposits,
                   syncJobId, totalRecordsProcessed, totalRecordsInserted,
                   totalRecordsDuplicated, totalRecordsFailed, calls>>

\* the history request the run is awaiting, settled with `page`; `failed` is
\* totalRecordsFailed when the run reaches its next await
FetchEntry(ok, page, failed) ==
    [kind |-> "fetch", ok |-> ok, chunk |-> chunkIdx, startTime |-> chunkStartTime,
     endTime |-> chunks[chunkIdx].endTime, limit |-> pageLimit,
     page |-> page, failed |-> failed]

\* the else branch of `if (transactions.length > 0)`:
\* totalRecordsFailed += deposits.length
\* a zero-success branch that counts nothing
ZeroSuccessFailedNone(page) == Len(page) - Len(page)

\* a zero-success branch that takes the page off the failed count
ZeroSuccessFailedNegative(page) == Len(page) - (2 * Len(page))

ZeroSuccessFailed(page) == Len(page)

\* the history request resolves with a page (a body that is no array is handled
\* by the code exactly as an empty page)
FetchResolves ==
    /\ pc = "fetch"
    /\ LET page == UpstreamPage(chunkStartTime, chunks[chunkIdx].endTime,
                                pageLimit)
       IN  /\ Logged(FetchEntry(TRUE, page,
                    IF Len(page) > 0 /\ Len(Transactions(jobType, page)) = 0
                    THEN totalRecordsFailed + ZeroSuccessFailed(page)
                    ELSE totalRecordsFailed))
           /\ deposits' = page
           /\ IF Len(page) = 0
              THEN \* hasMoreRecords = false; break
                   /\ Advance(chunkIdx + 1, finalStatus, totalRecordsProcessed,
                              totalRecordsFailed)
                   /\ UNCHANGED totalRecordsFailed
              ELSE IF Len(Transactions(jobType, page)) > 0
              THEN /\ pc' = "saveBulkData"
                   /\ UNCHANGED <<chunkIdx, chunkStartTime, finalStatus,
                                  totalRecordsFailed>>
              ELSE \* no transaction survived: the whole page is counted failed
                   /\ totalRecordsFailed' = totalRecordsFailed + ZeroSuccessFailed(page)
                   /\ Continue(page, finalStatus, totalRecordsProcessed,
                               totalRecordsFailed + ZeroSuccessFailed(page))
    /\ UNCHANGED <<tx, pageLimit, other, prev, now, upstream, ledger, db, jobType, forceStartTime, forceEndTime,
                   startTime, endTime, chunks, syncJobId,
                   totalRecordsProcessed, totalRecordsInserted,
                   totalRecordsDuplicated, outcome, calls, lastFinal>>

\* a run that retries a rejected history request
FetchRejectsRetries ==
    /\ pc = "fetch"
    /\ Logged(FetchEntry(FALSE, <<>>, totalRecordsFailed))
    /\ UNCHANGED <<tx, pageLimit, other, prev, now, upstream, ledger, db, pc, jobType, forceStartTime, forceEndTime,
                   outcome, calls, lastFinal>>
    /\ UNCHANGED runLocals

\* the history request rejects: the error reaches the catch of the run, which
\* awaits updateSyncJob(syncJobId, {status: 'failed', errorMessage})
FetchRejects ==
    /\ pc = "fetch"
    /\ Logged(FetchEntry(FALSE, <<>>, totalRecordsFailed))
    /\ finalStatus' = "failed"
    /\ pc' = "updateSyncJobFailed"
    /\ UNCHANGED <<tx, pageLimit, other, prev, now, upstream, ledger, db, jobType, forceStartTime, forceEndTime,
                   startTime, endTime, chunks, chunkIdx, chunkStartTime, deposits,
                   syncJobId, totalRecordsProcessed, totalRecordsInserted,
                   totalRecordsDuplicated, totalRecordsFailed,
                   outcome, calls, lastFinal>>

\* the dedup keys of a batch in the bulk store
Keys(jt, batch) == {<<jt, batch[i]>> : i \in 1..Len(batch)}

\* a store without deduplication: every accepted record is inserted
BulkResultInsertsAll(jt, batch, rejected) ==
    LET accepted == SubSeq(batch, 1, Len(batch) - rejected)
    IN  [inserted |-> Len(accepted), duplicated |-> Len(accepted) - Len(accepted),
         failed |-> rejected, accepted |-> accepted]

\* POST /api/transactions/bulk answers {inserted, duplicated, failed}: the store
\* rejects the last `rejected` records of the batch, inserts the keys it does
\* not hold yet and reports the rest as duplicated
BulkResult(jt, batch, rejected) ==
    LET accepted == SubSeq(batch, 1, Len(batch) - rejected)
        inserted == Cardinality(Keys(jt, accepted) \ db)
    IN  [inserted |-> inserted, duplicated |-> Len(accepted) - inserted,
         failed |-> rejected, accepted |-> accepted]

\* saveBulkData resolves: the page is counted processed, the loader's counts
\* are added, and the transform failures of the page are added to the failed
SaveBulkDataResolves ==
    /\ pc = "saveBulkData"
    /\ \E rejected \in 0..Len(Transactions(jobType, deposits)) :
        LET batch      == Transactions(jobType, deposits)
            bulkResult == BulkResult(jobType, batch, rejected)
            failed     == totalRecordsFailed + bulkResult.failed
                              + (Len(deposits) - Len(batch))
            processed  == totalRecordsProcessed + Len(deposits)
        IN  /\ Logged([kind |-> "bulk", ok |-> TRUE, batch |-> batch,
                       loaderFailed |-> bulkResult.failed, failed |-> failed])
            /\ db' = db \cup Keys(jobType, bulkResult.accepted)
            /\ totalRecordsProcessed' = processed
            /\ totalRecordsInserted' = totalRecordsInserted + bulkResult.inserted
            /\ totalRecordsDuplicated' = totalRecordsDuplicated + bulkResult.duplicated
            /\ totalRecordsFailed' = failed
            /\ Continue(deposits, finalStatus, processed, failed)
    /\ UNCHANGED <<tx, pageLimit, other, prev, now, upstream, ledger, jobType, forceStartTime, forceEndTime,
                   startTime, endTime, chunks, deposits, syncJobId,
                   outcome, calls, lastFinal>>

\* a run in which a rejected saveBulkData aborts: the error reaches the catch
SaveBulkDataRejectsAborts ==
    /\ pc = "saveBulkData"
    /\ Logged([kind |-> "bulk", ok |-> FALSE,
               batch |-> Transactions(jobType, deposits),
               loaderFailed |-> 0, failed |-> totalRecordsFailed])
    /\ finalStatus' = "failed"
    /\ pc' = "updateSyncJobFailed"
    /\ UNCHANGED <<tx, pageLimit, other, prev, now, upstream, ledger, db, jobType, forceStartTime, forceEndTime,
                   startTime, endTime, chunks, chunkIdx, chunkStartTime, deposits,
                   syncJobId, totalRecordsProcessed, totalRecordsInserted,
                   totalRecordsDuplicated, totalRecordsFailed,
                   outcome, calls, lastFinal>>

\* saveBulkData rejects: the batch is counted failed, finalStatus = 'partial',
\* and the loop goes on
SaveBulkDataRejects ==
    /\ pc = "saveBulkData"
    /\ LET batch  == Transactions(jobType, deposits)
           failed == totalRecordsFailed + Len(batch)
       IN  /\ Logged([kind |-> "bulk", ok |-> FALSE, batch |-> batch,
                      loaderFailed |-> 0, failed |-> failed])
           /\ totalRecordsFailed' = failed
           /\ Continue(deposits, "partial", totalRecordsProcessed, failed)
    /\ UNCHANGED <<tx, pageLimit, other, prev, now, upstream, ledger, db, jobType, forceStartTime, forceEndTime,
                   startTime, endTime, chunks, deposits, syncJobId,
                   totalRecordsProcessed, totalRecordsInserted,
                   totalRecordsDuplicated, outcome, calls, lastFinal>>

\* an updateSyncJob request
UpdateEntry(ok, payload) ==
    [kind |-> "update", ok |-> ok, id |-> syncJobId, payload |-> payload]

\* the terminal updateSyncJob resolves: the row is patched, the result returned
UpdateSyncJobResolves ==
    /\ pc = "updateSyncJob"
    /\ Logged(UpdateEntry(TRUE, FinalPayload))
    /\ ledger' = [ledger EXCEPT ![syncJobId] = Patched(@, FinalPayload)]
    /\ Return(Result)
    /\ UNCHANGED <<tx, pageLimit, other, prev, now, upstream, db, jobType, forceStartTime, forceEndTime, calls>>
    /\ UNCHANGED runLocals

\* the terminal updateSyncJob rejects: the error reaches the catch, which
\* sends a second update
UpdateSyncJobRejects ==
    /\ pc = "updateSyncJob"
    /\ Logged(UpdateEntry(FALSE, FinalPayload))
    /\ finalStatus' = "failed"
    /\ pc' = "updateSyncJobFailed"
    /\ UNCHANGED <<tx, pageLimit, other, prev, now, upstream, ledger, db, jobType, forceStartTime, forceEndTime,
                   startTime, endTime, chunks, chunkIdx, chunkStartTime, deposits,
                   syncJobId, totalRecordsProcessed, totalRecordsInserted,
                   totalRecordsDuplicated, totalRecordsFailed,
                   outcome, calls, lastFinal>>

\* a catch that returns the result instead of rethrowing
FailedUpdateReturnsResult ==
    /\ pc = "updateSyncJobFailed"
    /\ Logged(UpdateEntry(TRUE, FailedPayload))
    /\ ledger' = IF syncJobId \in 1..Len(ledger)
                 THEN [ledger EXCEPT ![syncJobId] = Patched(@, FailedPayload)]
                 ELSE ledger
    /\ Return(Result)
    /\ UNCHANGED <<tx, pageLimit, other, prev, now, upstream, db, jobType, forceStartTime, forceEndTime, calls>>
    /\ UNCHANGED runLocals

\* the catch's updateSyncJob resolves (a PATCH for an id the ledger does not
\* hold changes no row); the error is rethrown
FailedUpdateResolves ==
    /\ pc = "updateSyncJobFailed"
    /\ Logged(UpdateEntry(TRUE, FailedPayload))
    /\ ledger' = IF syncJobId \in 1..Len(ledger)
                 THEN [ledger EXCEPT ![syncJobId] = Patched(@, FailedPayload)]
                 ELSE ledger
    /\ Return(Thrown)
    /\ UNCHANGED <<tx, pageLimit, other, prev, now, upstream, db, jobType, forceStartTime, forceEndTime, calls>>
    /\ UNCHANGED runLocals

\* the catch's updateSyncJob rejects: logged and swallowed; the error is rethrown
FailedUpdateRejects ==
    /\ pc = "updateSyncJobFailed"
    /\ Logged(UpdateEntry(FALSE, FailedPayload))
    /\ Return(Thrown)
    /\ UNCHANGED <<tx, pageLimit, other, prev, now, upstream, ledger, db, jobType, forceStartTime, forceEndTime,
                   calls>>
    /\ UNCHANGED runLocals

\* the clock advances before a call (Date.now() is read only while the window
\* is resolved, so time passing inside a run is time passed before it, and
\* time passing after the last call is read by nobody)
Tick(budget) ==
    /\ pc \in {"idle", "done"}
    /\ calls < budget
    /\ now < MaxTime
    /\ now' = now + 1
    /\ UNCHANGED <<tx, pageLimit, other, prev, upstream, ledger, db, pc, jobType,
                   forceStartTime, forceEndTime, outcome, calls, log, lastFinal>>
    /\ UNCHANGED runLocals

\* every step of a run after its start
RunStep ==
    \/ NextTimeRangeResolves
    \/ NextTimeRangeRejects
    \/ LastSuccessfulSyncJobResolves
    \/ LastSuccessfulSyncJobRejects
    \/ CreateSyncJobResolves
    \/ CreateSyncJobNoId
    \/ CreateSyncJobRejects
    \/ FetchResolves
    \/ FetchRejects
    \/ SaveBulkDataResolves
    \/ SaveBulkDataRejects
    \/ UpdateSyncJobResolves
    \/ UpdateSyncJobRejects
    \/ FailedUpdateResolves
    \/ FailedUpdateRejects

\* one call, made at the time the service starts with; the clock moves between
\* the calls of SpecResume and SpecConcurrent
Next ==
    \/ \E jt \in JobTypes, fs \in ForceStartTimes, fe \in ForceEndTimes, u \in BOOLEAN :
          SyncStart(jt, fs, fe, u, 1)
    \/ RunStep

Spec == Init /\ [][Next]_vars

\* the calls of the resume scenario: no explicit bounds, or the window [0, 3]
ResumeForce == {<<Undefined, Undefined>>, <<Some(0), Some(3)>>}

NextResume ==
    \/ \E jt \in JobTypes, f \in ResumeForce, u \in BOOLEAN :
          SyncStart(jt, f[1], f[2], u, MaxRuns)
    \/ RunStep
    \/ Tick(MaxRuns)

SpecResume == InitResume /\ [][NextResume]_vars

\* ------------------------------------------------ the end-to-end scenario
\* a page limit no page of the scenario reaches (1000 against 3 records)
ScenarioPageLimit == MaxRecords + 1

\* three deposits in the first chunk of the window, one without success status
ScenarioHistories ==
    {h \in Histories(3) :
        /\ \A i \in 1..3 : h[i].ts <= ChunkSizeMs
        /\ Cardinality({i \in 1..3 : h[i].status = 1}) = 2}

InitScenario ==
    \E h \in ScenarioHistories : InitWith(h, ScenarioPageLimit, <<>>, {})

\* one deposit sync over the explicit window [0, 2 chunk sizes]
NextScenario ==
    \/ SyncStart("deposit", Some(0), Some(2 * ChunkSizeMs), TRUE, 1)
    \/ CreateSyncJobResolves
    \/ CreateSyncJobNoId
    \/ CreateSyncJobRejects
    \/ FetchResolves
    \/ FetchRejects
    \/ SaveBulkDataResolves
    \/ SaveBulkDataRejects
    \/ UpdateSyncJobResolves
    \/ UpdateSyncJobRejects
    \/ FailedUpdateResolves
    \/ FailedUpdateRejects

SpecScenario == InitScenario /\ [][NextScenario]_vars

\* ------------------------------------------------------- concurrent calls
\* the event loop runs the other call: the two calls change places
Switch ==
    /\ calls > 0
    /\ other' = RunState
    /\ pc' = other.pc
    /\ jobType' = other.jobType
    /\ forceStartTime' = other.forceStartTime
    /\ forceEndTime' = other.forceEndTime
    /\ startTime' = other.startTime
    /\ endTime' = other.endTime
    /\ chunks' = other.chunks
    /\ chunkIdx' = other.chunkIdx
    /\ chunkStartTime' = other.chunkStartTime
    /\ deposits' = other.deposits
    /\ syncJobId' = other.syncJobId
    /\ totalRecordsProcessed' = other.totalRecordsProcessed
    /\ totalRecordsInserted' = other.totalRecordsInserted
    /\ totalRecordsDuplicated' = other.totalRecordsDuplicated
    /\ totalRecordsFailed' = other.totalRecordsFailed
    /\ finalStatus' = other.finalStatus
    /\ outcome' = other.outcome
    /\ log' = other.log
    /\ UNCHANGED <<tx, now, upstream, ledger, db, calls, lastFinal, pageLimit, prev>>

\* the job row of an earlier deposit sync of the one-instant window [0, 0]
PriorJob ==
    [jobType |-> "deposit", startTime |-> 0, endTime |-> 0, status |-> "success",
     counts |-> <<0, 0, 0, 0>>, errorMessage |-> FALSE, nextStartTime |-> Some(1)]

\* the ledger holds one finalized deposit job; the history is not empty
InitConcurrent ==
    \E h \in ResumeHistories \ {<<>>} :
        InitWith(h, MAX_RECORDS_PER_REQUEST, <<PriorJob>>, {})

\* two deposit syncs without explicit bounds, one called while the other is
\* suspended
NextConcurrent ==
    \/ SyncStart("deposit", Undefined, Undefined, TRUE, 2)
    \/ RunStep
    \/ Switch
    \/ Tick(2)

SpecConcurrent == InitConcurrent /\ [][NextConcurrent]_vars

\* ------------------------------------------- a run whose calls all return
\* every awaited call resolves; the continuation of a settled await is run
\* by the event loop, so the steps of the run are weakly fair
RunStepResolves ==
    \/ NextTimeRangeResolves
    \/ CreateSyncJobResolves
    \/ FetchResolves
    \/ SaveBulkDataResolves
    \/ UpdateSyncJobResolves

NextLive ==
    \/ \E jt \in JobTypes, fs \in ForceStartTimes, fe \in ForceEndTimes :
          SyncStart(jt, fs, fe, TRUE, 1)
    \/ RunStepResolves

SpecLive == Init /\ [][NextLive]_vars /\ WF_vars(RunStepResolves)

\* --------------------------------------------- the window lookup alone
\* what GET /api/sync-jobs/last-successful can answer for a job type: no job,
\* a job created and never finalized (the row has no nextStartTime, or has it
\* as null), or a finalized job
LastJobAnswers(jt) ==
    {NoJob,
     NewJob(jt, 0, 0),
     [NewJob(jt, 0, 0) EXCEPT !.nextStartTime = Some(Null)],
     [NewJob(jt, 0, 0) EXCEPT !.status = "success", !.counts = <<0, 0, 0, 0>>,
                              !.nextStartTime = Some(1)]}

InitLookup ==
    \E h \in ResumeHistories : InitWith(h, MAX_RECORDS_PER_REQUEST, <<>>, {})

\* one call, followed up to the window calculateTimeRange returns
NextLookup ==
    \/ \E jt \in JobTypes, fs \in ForceStartTimes, fe \in ForceEndTimes, u \in BOOLEAN :
          SyncStart(jt, fs, fe, u, 1)
    \/ NextTimeRangeResolves
    \/ NextTimeRangeRejects
    \/ \E lastJob \in LastJobAnswers(jobType) : LastSuccessfulSyncJobReturns(lastJob)
    \/ LastSuccessfulSyncJobRejects
    \/ Tick(1)

SpecLookup == InitLookup /\ [][NextLookup]_vars

\* ------------------------------------------------- the transform functions
\* An amount is a string: a sequence of characters.
AmountChars == {"5", "0", ".", "-"}

RECURSIVE Strings(_)
Strings(n) ==
    IF n = 0 THEN {<<>>}
    ELSE LET shorter == Strings(n - 1)
         IN  shorter \cup {Append(s, c) : s \in {t \in shorter : Len(t) = n - 1},
                                           c \in AmountChars}

Amounts == Strings(MaxAmountLen) \ {<<>>}

\* String(Number(s)) for a decimal literal: the zeros that end the fraction
\* are dropped, and the point with them when no fraction is left
RECURSIVE StripZeros(_)
StripZeros(s) ==
    IF s # <<>> /\ s[Len(s)] = "0" THEN StripZeros(SubSeq(s, 1, Len(s) - 1))
    ELSE IF s # <<>> /\ s[Len(s)] = "." THEN SubSeq(s, 1, Len(s) - 1)
    ELSE s

NumberToString(s) ==
    IF Cardinality({i \in 1..Len(s) : s[i] = "."}) = 1 THEN StripZeros(s) ELSE s

\* a withdrawal transform that negates the amount as a number
WithdrawalChangeAsNumber(amount) == <<"-">> \o NumberToString(amount)

\* const change = `-${withdrawal.amount}`
WithdrawalChange(amount) == <<"-">> \o amount

\* change: deposit.amount
DepositChange(amount) == amount

\* transformDepositToTransaction(deposit, appUserId, binanceUserId)
TransformDepositToTransaction ==
    /\ tx.kind = "raw"
    /\ tx' = IF tx.status # 1
             THEN [kind |-> "thrown", amount |-> tx.amount]
             ELSE [kind |-> "transaction", operation |-> "deposit",
                   amount |-> tx.amount, change |-> DepositChange(tx.amount)]
    /\ UNCHANGED <<now, upstream, ledger, db, pc, jobType, forceStartTime,
                   forceEndTime, outcome, calls, log, lastFinal, pageLimit,
                   other, prev>>
    /\ UNCHANGED runLocals

\* transformWithdrawalToTransaction(withdrawal, appUserId, binanceUserId)
TransformWithdrawalToTransaction ==
    /\ tx.kind = "raw"
    /\ tx' = [kind |-> "transaction", operation |-> "withdraw",
              amount |-> tx.amount, change |-> WithdrawalChange(tx.amount)]
    /\ UNCHANGED <<now, upstream, ledger, db, pc, jobType, forceStartTime,
                   forceEndTime, outcome, calls, log, lastFinal, pageLimit,
                   other, prev>>
    /\ UNCHANGED runLocals

\* an upstream record with any amount, handed to a transform function
InitTransform ==
    /\ \E a \in Amounts, st \in {0, 1} :
          tx = [kind |-> "raw", amount |-> a, status |-> st]
    /\ ServiceInit(<<>>, MAX_RECORDS_PER_REQUEST, <<>>, {})

NextTransform ==
    \/ TransformDepositToTransaction
    \/ TransformWithdrawalToTransaction

SpecTransform == InitTransform /\ [][NextTransform]_vars

TypeOK ==
    /\ pc \in {"idle", "getNextTimeRange", "getLastSuccessfulSyncJob", "createSyncJob",
               "fetch", "saveBulkData", "updateSyncJob", "updateSyncJobFailed", "done"}
    /\ finalStatus \in {"success", "partial", "failed"}

\* ===================================================================
\* Properties
\* ===================================================================

\* the window of the run is resolved and its chunks are cut
InRun == pc \in {"createSyncJob", "fetch", "saveBulkData", "updateSyncJob",
                 "updateSyncJobFailed"}

\* the positions of the log that hold requests of one kind
Of(kind) == {i \in 1..Len(log) : log[i].kind = kind}

\* upstream records whose timestamp lies in chunk k
InChunk(k) == {r \in 1..Len(upstream) :
                 chunks[k].startTime <= upstream[r].ts /\ upstream[r].ts <= chunks[k].endTime}

\* C1: for every window with start <= end the last chunk ends exactly at
\* window.end and the chunks cover every millisecond of [window.start,
\* window.end], the one-instant window start = end included.
C1_ChunksCoverWindow ==
    (InRun /\ startTime <= endTime) =>
        /\ chunks # <<>>
        /\ chunks[Len(chunks)].endTime = endTime
        /\ \A t \in startTime..endTime :
              \E i \in 1..Len(chunks) : chunks[i].startTime <= t /\ t <= chunks[i].endTime

\* C2: the chunk list is contiguous and non-overlapping: the first chunk starts
\* at window.start, every chunk has start <= end and end - start <= chunkSize,
\* and each later chunk starts at the previous chunk's end + 1.
C2_ChunksContiguous ==
    InRun =>
        /\ chunks # <<>> => chunks[1].startTime = startTime
        /\ \A i \in 1..Len(chunks) :
              /\ chunks[i].startTime <= chunks[i].endTime
              /\ chunks[i].endTime - chunks[i].startTime <= ChunkSizeMs
              /\ chunks[i].endTime <= endTime
        /\ \A i \in 2..Len(chunks) : chunks[i].startTime = chunks[i - 1].endTime + 1

\* a window cut into several chunks, the last of them shorter than the chunk size
C2_Witness ==
    /\ pc = "createSyncJob"
    /\ Len(chunks) >= 2
    /\ chunks[Len(chunks)].endTime - chunks[Len(chunks)].startTime < ChunkSizeMs

\* C3: within one chunk every upstream record with a timestamp in
\* [chunk.start, chunk.end] is returned by exactly one page of the page loop,
\* also when several records share the timestamp of the last record of a
\* full page.  Stated for every chunk whose page loop has ended.
C3_EveryRecordOnOnePage ==
    InRun =>
        \A k \in 1..Len(chunks) :
            k < chunkIdx =>
                \A r \in InChunk(k) :
                    Cardinality({i \in Of("fetch") :
                        log[i].chunk = k /\ r \in SeqToSet(log[i].page)}) = 1

\* C4: a run that processed all its chunks without an aborting error returns,
\* and has persisted in its ledger row, nextStartTime = window.end + 1,
\* whatever its final status.
C4_NextStartTimeIsEndPlusOne ==
    /\ \A i \in Of("update") :
          log[i].payload.counts # Undefined =>
              log[i].payload.nextStartTime = Some(endTime + 1)
    /\ (pc = "done" /\ outcome.kind = "result") =>
          /\ chunkIdx = Len(chunks) + 1
          /\ outcome.nextStartTime = Some(endTime + 1)
          /\ ledger[syncJobId].nextStartTime = Some(ledger[syncJobId].endTime + 1)
          /\ ledger[syncJobId].endTime = endTime
          /\ ledger[syncJobId].status = outcome.status

\* a run that returned a result whose status is not success
C4_Witness ==
    /\ pc = "done"
    /\ outcome.kind = "result"
    /\ outcome.status = "partial"
    /\ Len(chunks) >= 2

\* a history request of this run was rejected
FetchAborted == \E i \in Of("fetch") : ~log[i].ok

\* the run resolves its window without explicit bounds
NoExplicitBounds == forceStartTime = Undefined \/ forceEndTime = Undefined

\* C5: with runs one after the other and no explicit bounds, when the last run
\* of a job type finalized success or partial with window W, the next run of
\* that job type resolves a window whose start is exactly W.end + 1.
C5_NextWindowStartsAfterLast ==
    (pc = "createSyncJob" /\ NoExplicitBounds /\ lastFinal[jobType] # Undefined) =>
        startTime = lastFinal[jobType][1] + 1

\* a second run of a job type resolving its window after the first finalized
C5_Witness ==
    /\ pc = "createSyncJob"
    /\ NoExplicitBounds
    /\ lastFinal[jobType] # Undefined
    /\ Len(ledger) >= 1
    /\ startTime <= endTime

\* the page loop of chunk k ended on a short page, and every page that held a
\* transaction was handed to the bulk loader before the next request
ChunkCleared(k) ==
    /\ \E i \in Of("fetch") : log[i].chunk = k /\ log[i].ok
                               /\ Len(log[i].page) < MAX_RECORDS_PER_REQUEST
    /\ \A i \in Of("fetch") :
          (log[i].chunk = k /\ Len(Transactions(jobType, log[i].page)) > 0) =>
              /\ i < Len(log)
              /\ log[i + 1].kind = "bulk"
              /\ log[i + 1].batch = Transactions(jobType, log[i].page)

\* C6: a nextStartTime is written to the ledger only after every chunk of the
\* window has been fetched and processed; a run aborted by a fetch error
\* writes no nextStartTime.
C6_NextStartTimeOnlyAfterAllChunks ==
    /\ \A i \in Of("update") :
          log[i].payload.nextStartTime # Undefined =>
              /\ \A j \in Of("fetch") : j < i /\ log[j].ok
              /\ \A k \in 1..Len(chunks) : ChunkCleared(k)
    /\ (syncJobId \in 1..Len(ledger) /\ ledger[syncJobId].nextStartTime # Undefined) =>
              /\ ~FetchAborted
              /\ chunkIdx = Len(chunks) + 1
              /\ \A k \in 1..Len(chunks) : ChunkCleared(k)
    /\ (FetchAborted /\ syncJobId \in 1..Len(ledger)) =>
              ledger[syncJobId].nextStartTime = Undefined

\* a run aborted by a fetch error after an earlier chunk was cleared, its
\* failed update written, and no resumption point in its row
C6_Witness ==
    /\ pc = "done"
    /\ FetchAborted
    /\ chunkIdx >= 2
    /\ log[Len(log)].kind = "update" /\ log[Len(log)].ok
    /\ ledger[syncJobId].nextStartTime = Undefined

\* the history request before request i, 0 if i is the first
PrevFetch(i) ==
    LET before == {j \in Of("fetch") : j < i}
    IN  IF before = {} THEN 0 ELSE CHOOSE j \in before : \A l \in before : l <= j

\* the history requests made for chunk k
FetchesOf(k) == {i \in Of("fetch") : log[i].chunk = k}

\* C7: the page loop requests [cursor, chunk.end] with limit pageLimit,
\* starting at cursor = chunk.start; after a page of exactly pageLimit records
\* it requests again from the last record's timestamp + 1 with the same end;
\* after a shorter page (zero included) it makes no further request for the
\* chunk; so a chunk holding exactly pageLimit records is requested exactly
\* twice and yields exactly pageLimit records.
C7_PageLoop ==
    /\ \A i \in Of("fetch") :
          LET e == log[i]
              p == PrevFetch(i)
          IN  /\ e.limit = MAX_RECORDS_PER_REQUEST
              /\ e.endTime = chunks[e.chunk].endTime
              /\ (p = 0 \/ log[p].chunk # e.chunk) =>
                    e.startTime = chunks[e.chunk].startTime
              /\ (p # 0 /\ log[p].chunk # e.chunk) =>
                    Len(log[p].page) < MAX_RECORDS_PER_REQUEST
              /\ (p # 0 /\ log[p].chunk = e.chunk) =>
                    /\ Len(log[p].page) = MAX_RECORDS_PER_REQUEST
                    /\ e.startTime = upstream[log[p].page[Len(log[p].page)]].ts + 1
              /\ Len(e.page) = MAX_RECORDS_PER_REQUEST =>
                    \/ \E j \in FetchesOf(e.chunk) : j > i
                    \/ pc \in {"fetch", "saveBulkData"} /\ chunkIdx = e.chunk
              /\ Len(e.page) < MAX_RECORDS_PER_REQUEST =>
                    ~ \E j \in FetchesOf(e.chunk) : j > i
    /\ InRun =>
          \A k \in 1..Len(chunks) :
              (k < chunkIdx /\ Cardinality(InChunk(k)) = MAX_RECORDS_PER_REQUEST) =>
                  /\ Cardinality(FetchesOf(k)) = 2
                  /\ \E i, j \in FetchesOf(k) :
                        /\ i < j
                        /\ Len(log[i].page) = MAX_RECORDS_PER_REQUEST
                        /\ Len(log[j].page) = 0

\* a chunk answered with a full page and then an empty one, its loop ended
C7_Witness ==
    /\ pc = "updateSyncJob"
    /\ \E i, j \in Of("fetch") :
          /\ PrevFetch(j) = i
          /\ log[i].chunk = log[j].chunk
          /\ Len(log[i].page) = MAX_RECORDS_PER_REQUEST
          /\ Len(log[j].page) = 0
          /\ log[j].ok

\* C8: a fetch error is never retried: after it the run issues no further
\* fetch or bulk-load request, and the job record is finalized failed (the
\* one request that follows is the update that sets status failed).
C8_FetchErrorNotRetried ==
    \A i \in Of("fetch") :
        ~log[i].ok =>
            /\ pc \in {"updateSyncJobFailed", "done"}
            /\ Len(log) <= i + 1
            /\ \A j \in (i + 1)..Len(log) :
                  /\ log[j].kind = "update"
                  /\ log[j].id = syncJobId
                  /\ log[j].payload.status = "failed"
            /\ pc = "done" =>
                  /\ Len(log) = i + 1
                  /\ log[i + 1].ok => ledger[syncJobId].status = "failed"

\* a run aborted by a fetch error after an earlier page was fetched, its job
\* row finalized failed
C8_Witness ==
    /\ pc = "done"
    /\ \E i \in Of("fetch") : ~log[i].ok /\ PrevFetch(i) # 0
    /\ log[Len(log)].ok
    /\ ledger[syncJobId].status = "failed"

LaterPageFailed ==
    \E i \in Of("fetch") : ~log[i].ok /\ PrevFetch(i) # 0

Aborting(i) ==
    \/ log[i].kind \in {"fetch", "last", "update"} /\ ~log[i].ok
    \/ log[i].kind = "create" /\ (~log[i].ok \/ log[i].id = NoId)

TerminalUpdates == {i \in Of("update") : log[i].payload.counts # Undefined}

\* C11: if the terminal ledger write (the update carrying the final status,
\* the counters and nextStartTime) fails, the run still returns its result to
\* the caller instead of raising an error.
C11_ResultDespiteTerminalWriteFailure ==
    (pc = "done" /\ \E i \in TerminalUpdates : ~log[i].ok) =>
        /\ outcome.kind = "result"
        /\ outcome.recordsProcessed = totalRecordsProcessed
        /\ outcome.nextStartTime = Some(endTime + 1)

\* C12: for each run the job row is written exactly twice, one create and one
\* terminal update: once an update request has been sent for a job id, no
\* second update is sent for that id.
C12_JobRowWrittenTwice ==
    /\ Cardinality(Of("create")) <= 1
    /\ \A i, j \in Of("update") : log[i].id = log[j].id => i = j

\* the run's createSyncJob failed: it rejected, or resolved without a usable id
CreationFailed ==
    \E j \in Of("create") : ~log[j].ok \/ log[j].id = NoId

\* C13: no history request (and no bulk load) is issued before the job row of
\* the run has been created in the ledger; when creation fails the call ends
\* with an exception, having issued no history request and no bulk load.
C13_NoFetchBeforeJobCreated ==
    /\ \A i \in Of("fetch") \cup Of("bulk") :
          \E j \in Of("create") :
              /\ j < i
              /\ log[j].ok
              /\ log[j].id \in 1..Len(ledger)
              /\ ledger[log[j].id].jobType = jobType
              /\ ledger[log[j].id].startTime = startTime
              /\ ledger[log[j].id].endTime = endTime
    /\ pc \in {"fetch", "saveBulkData"} => syncJobId \in 1..Len(ledger)
    /\ CreationFailed =>
          /\ Of("fetch") = {}
          /\ Of("bulk") = {}
          /\ pc \in {"updateSyncJobFailed", "done"}
          /\ pc = "done" => outcome = Thrown

\* a call whose createSyncJob rejected, for a window that has chunks to fetch
C13_Witness ==
    /\ pc = "done"
    /\ \E j \in Of("create") : ~log[j].ok
    /\ chunks # <<>>
    /\ outcome = Thrown

\* C14: when run creation fails (the create call errors, or its response
\* carries no usable job id) no ledger update is issued for that attempt.
C14_NoUpdateAfterFailedCreation ==
    CreationFailed => Of("update") = {}

\* C15: a job row is created in status running, so a run that has not sent its
\* terminal write is not recorded as success, failed or partial.
C15_CreatedRunning ==
    (syncJobId \in 1..Len(ledger) /\ Of("update") = {}) =>
        ledger[syncJobId].status \notin {"success", "failed", "partial"}

\* some call of the run ended in an aborting error
Aborted == \E i \in 1..Len(log) : Aborting(i)

Survivors(page) ==
    SelectSeq(page, LAMBDA r : jobType = "withdraw" \/ upstream[r].status = 1)

\* totalRecordsFailed before the request at position i settled
FailedBefore(i) ==
    IF i > 1 /\ log[i - 1].kind \in {"fetch", "bulk"} THEN log[i - 1].failed ELSE 0

\* the failed total the log carries is the run's totalRecordsFailed
FailedTotalLogged ==
    (log # <<>> /\ log[Len(log)].kind \in {"fetch", "bulk"}) =>
        log[Len(log)].failed = totalRecordsFailed

\* C17: when a bulk-load call errors, the length of the submitted batch is
\* added to recordsFailed, the error does not abort the run: the run goes on
\* with the next page of the chunk, the next chunk, or the terminal update,
\* and unless another call aborts it the caller gets a result.
C17_LoadErrorNotFatal ==
    /\ FailedTotalLogged
    /\ \A i \in Of("bulk") :
          ~log[i].ok =>
              LET f == log[i - 1]
              IN  /\ f.kind = "fetch" /\ f.ok
                  /\ log[i].batch = Survivors(f.page)
                  /\ log[i].failed = FailedBefore(i) + Len(log[i].batch)
                  /\ ~Aborting(i)
                  /\ IF i = Len(log)
                     THEN /\ pc \in {"fetch", "updateSyncJob"}
                          /\ pc = "fetch" <=>
                                (Len(f.page) = MAX_RECORDS_PER_REQUEST
                                   \/ f.chunk < Len(chunks))
                          /\ pc = "fetch" =>
                                chunkIdx = IF Len(f.page) = MAX_RECORDS_PER_REQUEST
                                           THEN f.chunk ELSE f.chunk + 1
                     ELSE IF Len(f.page) = MAX_RECORDS_PER_REQUEST
                     THEN log[i + 1].kind = "fetch" /\ log[i + 1].chunk = f.chunk
                     ELSE IF f.chunk < Len(chunks)
                     THEN log[i + 1].kind = "fetch" /\ log[i + 1].chunk = f.chunk + 1
                     ELSE i + 1 \in TerminalUpdates
    /\ (pc = "done" /\ ~Aborted /\ \E i \in Of("bulk") : ~log[i].ok) =>
          /\ outcome.kind = "result"
          /\ outcome.recordsFailed > 0
          /\ Len(log) \in TerminalUpdates

\* a run that returned a result although a bulk load errored and more pages
\* were fetched after it
C17_Witness ==
    /\ pc = "done"
    /\ outcome.kind = "result"
    /\ \E i \in Of("bulk") : ~log[i].ok /\ log[i + 1].kind = "fetch" /\ log[i + 1].ok

\* C18: a run in which a bulk load errored and a batch was loaded
\* successfully finalizes partial through its terminal write; a terminal
\* status failed is written only when no batch of the run was loaded.
C18_PartialAfterLoadError ==
    \A u \in TerminalUpdates :
        LET loaded  == \E i \in Of("bulk") : log[i].ok
            errored == \E i \in Of("bulk") : ~log[i].ok
        IN  /\ (errored /\ loaded) => log[u].payload.status = "partial"
            /\ log[u].payload.status = "failed" => ~loaded
            /\ (errored /\ ~loaded) => log[u].payload.status = "failed"
            /\ (log[u].ok /\ pc = "done") =>
                  /\ ledger[syncJobId].status = log[u].payload.status
                  /\ outcome.status = log[u].payload.status

\* a run that loaded one batch, then had a larger batch rejected by a load
\* error, and finalized partial
C18_Witness ==
    /\ pc = "done"
    /\ outcome.kind = "result"
    /\ outcome.status = "partial"
    /\ outcome.recordsProcessed <= outcome.recordsFailed
    /\ \E i, j \in Of("bulk") : i < j /\ log[i].ok /\ ~log[j].ok

\* transformation fails for some but not all records of the page
MixedPage(page) ==
    /\ Len(Survivors(page)) > 0
    /\ Len(Survivors(page)) < Len(page)

\* C19: a record whose transformation fails does not abort its batch: for a
\* page of n records of which k fail transformation (0 < k < n) the n - k
\* transformed records are submitted in one bulk-load call, in upstream
\* order, and on a successful load recordsFailed grows by k plus the failed
\* count the loader reports.
C19_TransformFailuresSkipped ==
    /\ FailedTotalLogged
    /\ \A i \in Of("fetch") :
          (log[i].ok /\ MixedPage(log[i].page)) =>
              LET k == Len(log[i].page) - Len(Survivors(log[i].page))
              IN  /\ log[i].failed = FailedBefore(i)
                  /\ IF i = Len(log)
                     THEN pc = "saveBulkData" /\ deposits = log[i].page
                     ELSE /\ log[i + 1].kind = "bulk"
                          /\ log[i + 1].batch = Survivors(log[i].page)
                          /\ Len(log[i + 1].batch) = Len(log[i].page) - k
                          /\ log[i + 1].ok =>
                                log[i + 1].failed =
                                    log[i].failed + k + log[i + 1].loaderFailed
                          /\ i + 2 <= Len(log) => log[i + 2].kind # "bulk"

\* a page with a failed transformation whose batch was loaded, the loader
\* reporting a failed record of its own
C19_Witness ==
    \E i \in Of("fetch") :
        /\ MixedPage(log[i].page)
        /\ i < Len(log)
        /\ log[i + 1].kind = "bulk"
        /\ log[i + 1].ok
        /\ log[i + 1].loaderFailed > 0

\* C20: for a non-empty page on which every record fails transformation no
\* bulk-load call is made and recordsFailed grows by the page's length.
C20_AllFailedPageNotLoaded ==
    /\ FailedTotalLogged
    /\ \A i \in Of("fetch") :
          (log[i].ok /\ Len(log[i].page) > 0 /\ Survivors(log[i].page) = <<>>) =>
              /\ log[i].failed = FailedBefore(i) + Len(log[i].page)
              /\ i = Len(log) => pc \in {"fetch", "updateSyncJob"}
              /\ i < Len(log) => log[i + 1].kind # "bulk"

\* a full page on which every record failed transformation, in a run that
\* returned its result
C20_Witness ==
    /\ pc = "done"
    /\ outcome.kind = "result"
    /\ \E i \in Of("fetch") :
          /\ Len(log[i].page) = MAX_RECORDS_PER_REQUEST
          /\ Survivors(log[i].page) = <<>>

\* C21: within one run the requests are made one after the other: chunks are
\* taken in ascending order, the first request of a chunk is made only after
\* the last page of the previous chunk has been loaded, and within a chunk the
\* bulk load of a page has settled before the next page is requested.
C21_OneRequestAtATime ==
    /\ \A i \in Of("fetch") :
          LET p == PrevFetch(i)
          IN  /\ p = 0 => log[i].chunk = 1 /\ log[i - 1].kind = "create"
              /\ p # 0 =>
                    /\ log[p].ok
                    /\ log[i].chunk \in {log[p].chunk, log[p].chunk + 1}
                    /\ log[p].startTime <= log[i].startTime
                    /\ log[i].chunk = log[p].chunk => log[p].startTime < log[i].startTime
                    /\ log[i].chunk # log[p].chunk => log[p].endTime < log[i].startTime
                    /\ IF Survivors(log[p].page) # <<>>
                       THEN i = p + 2 /\ log[p + 1].kind = "bulk"
                       ELSE i = p + 1
    /\ \A i \in Of("bulk") : log[i - 1].kind = "fetch" /\ log[i - 1].ok
    /\ pc = "saveBulkData" =>
          /\ log[Len(log)].kind = "fetch"
          /\ log[Len(log)].page = deposits
    /\ pc = "fetch" => log[Len(log)].kind \in {"create", "fetch", "bulk"}
    /\ pc = "updateSyncJob" =>
          /\ log[Len(log)].kind \in {"create", "fetch", "bulk"}
          /\ \A k \in 1..Len(chunks) : \E i \in Of("fetch") : log[i].chunk = k

\* a run that loaded a page of its first chunk and then requested its second
C21_Witness ==
    /\ pc = "done"
    /\ outcome.kind = "result"
    /\ \E i \in Of("bulk") :
          /\ log[i - 1].chunk = 1
          /\ i < Len(log)
          /\ log[i + 1].kind = "fetch"
          /\ log[i + 1].chunk = 2

\* C22 : with no explicit bounds, when the ledger lookup fails with a fault
\* that is not a not-found answer, the resolver returns the default window
\* {now - lookback, now} and the sync proceeds to create its job.
C22_LookupFaultFallsBack ==
    (forceStartTime = Undefined /\ forceEndTime = Undefined
       /\ \E i \in Of("last") : ~log[i].ok) =>
        /\ startTime = now - InitialSyncMs
        /\ endTime = now
        /\ pc = "createSyncJob" \/ Of("create") # {}

\* both explicit bounds were supplied to the call
BothForced == forceStartTime # Undefined /\ forceEndTime # Undefined

\* C23: when both explicit bounds are supplied, the window that is chunked,
\* requested and written to the job row is exactly (explicitStart,
\* explicitEnd), and no ledger lookup is made to resolve it.
C23_ExplicitWindowVerbatim ==
    (BothForced /\ (InRun \/ (pc = "done" /\ log # <<>>))) =>
        /\ Of("range") = {}
        /\ Of("last") = {}
        /\ log # <<>> => log[1].kind = "create"
        /\ startTime = forceStartTime[1]
        /\ endTime = forceEndTime[1]
        /\ chunks # <<>> => chunks[1].startTime = forceStartTime[1]
        /\ \A k \in 1..Len(chunks) : chunks[k].endTime <= forceEndTime[1]
        /\ \A i \in Of("fetch") :
              /\ forceStartTime[1] <= log[i].startTime
              /\ log[i].endTime <= forceEndTime[1]
        /\ syncJobId \in 1..Len(ledger) =>
              /\ ledger[syncJobId].startTime = forceStartTime[1]
              /\ ledger[syncJobId].endTime = forceEndTime[1]

\* a run over an explicit window that ends after the current time
C23_Witness ==
    /\ pc = "done"
    /\ outcome.kind = "result"
    /\ BothForced
    /\ forceEndTime[1] > now
    /\ Of("fetch") # {}
    /\ ledger[syncJobId].endTime = forceEndTime[1]

\* C24: with no explicit bounds and no resumable job of the job type (the
\* ledger answers not-found), the resolved window is {now - lookback, now}.
C24_DefaultLookbackWindow ==
    (pc = "createSyncJob" /\ forceStartTime = Undefined /\ forceEndTime = Undefined
       /\ LastResumable(jobType) = 0) =>
        /\ startTime = now - InitialSyncMs
        /\ endTime = now

\* the fallback lookup answered not-found after an earlier run of the job
\* type had ended without a resumption point
C24_Witness ==
    /\ pc = "createSyncJob"
    /\ forceStartTime = Undefined /\ forceEndTime = Undefined
    /\ log[Len(log)].kind = "last" /\ log[Len(log)].ok
    /\ LastResumable(jobType) = 0
    /\ \E i \in 1..Len(ledger) : ledger[i].jobType = jobType
    /\ now > InitialSyncMs

\* the run that just ended and the run before it were made for the same job
\* type with the same explicit window, both returned a result, and in both
\* every remote call resolved and the loader rejected no record
SameWindowTwice ==
    /\ pc = "done"
    /\ outcome.kind = "result"
    /\ Clean(log)
    /\ BothForced
    /\ prev.kind = "run"
    /\ prev.outcome.kind = "result"
    /\ prev.clean
    /\ prev.jobType = jobType
    /\ prev.startTime = startTime
    /\ prev.endTime = endTime

C26_EndToEndScenario ==
    (pc = "done" /\ outcome.kind = "result" /\ Clean(log)) =>
        /\ startTime = 0 /\ endTime = 2 * ChunkSizeMs
        /\ Len(chunks) = 2
        /\ Cardinality(Of("fetch")) = 2
        /\ \A i \in Of("fetch") : Len(log[i].page) = IF log[i].chunk = 1 THEN 3 ELSE 0
        /\ outcome.recordsProcessed = 3
        /\ outcome.recordsInserted = 2
        /\ outcome.recordsDuplicated = 0
        /\ outcome.recordsFailed = 1
        /\ outcome.status = "partial"
        /\ outcome.nextStartTime = Some(2 * ChunkSizeMs + 1)
        /\ ledger[syncJobId].counts = <<3, 2, 0, 1>>
        /\ ledger[syncJobId].status = "partial"
        /\ ledger[syncJobId].nextStartTime = Some(2 * ChunkSizeMs + 1)

\* the scenario run finalized, its one bulk load having carried two records
C26_Witness ==
    /\ pc = "done"
    /\ outcome.kind = "result"
    /\ Clean(log)
    /\ pageLimit > 3
    /\ \E i \in Of("bulk") : Len(log[i].batch) = 2 /\ Len(log[i - 1].page) = 3
    /\ ledger[syncJobId].nextStartTime # Undefined

\* C27: every window resolved for a run and written to its job row has
\* start <= end, for every combination of explicit bounds the endpoint
\* accepts.
C27_WindowOrdered ==
    /\ InRun => startTime <= endTime
    /\ \A i \in 1..Len(ledger) : ledger[i].startTime <= ledger[i].endTime

\* C29: in every ledger write and in every result returned to the caller an
\* errorMessage is present only if the status of that write or result is
\* failed.
C29_ErrorMessageOnlyWhenFailed ==
    /\ \A i \in Of("update") :
          log[i].payload.errorMessage => log[i].payload.status = "failed"
    /\ outcome.kind = "result" => ~outcome.errorMessage
    /\ \A i \in 1..Len(ledger) :
          ledger[i].errorMessage => ledger[i].status = "failed"
    /\ \A i \in TerminalUpdates : ~log[i].payload.errorMessage

\* a run with failed records that returned partial, and whose terminal write
\* carried no error message
C29_Witness ==
    /\ pc = "done"
    /\ outcome.kind = "result"
    /\ outcome.status = "partial"
    /\ ~outcome.errorMessage
    /\ ~ledger[syncJobId].errorMessage
    /\ ledger[syncJobId].status = "partial"

\* C30: during a run each of the four counters starts at 0, is never
\* negative and never decreases.
C30_CountersMonotone ==
    [][IF calls' # calls
       THEN /\ totalRecordsProcessed' = 0
            /\ totalRecordsInserted' = 0
            /\ totalRecordsDuplicated' = 0
            /\ totalRecordsFailed' = 0
       ELSE /\ totalRecordsProcessed' >= totalRecordsProcessed
            /\ totalRecordsInserted' >= totalRecordsInserted
            /\ totalRecordsDuplicated' >= totalRecordsDuplicated
            /\ totalRecordsFailed' >= totalRecordsFailed
            /\ totalRecordsProcessed >= 0
            /\ totalRecordsInserted >= 0
            /\ totalRecordsDuplicated >= 0
            /\ totalRecordsFailed >= 0]_vars

\* a run that counted failed records on several pages, and processed and
\* inserted records
C30_Witness ==
    /\ pc = "done"
    /\ totalRecordsProcessed > 0
    /\ totalRecordsInserted > 0
    /\ totalRecordsFailed > 1
    /\ \E i \in Of("fetch") : log[i].ok /\ Len(log[i].page) > 0
                                /\ Survivors(log[i].page) = <<>>

\* the call r has resolved its window
WindowResolved(r) ==
    \/ r.pc = "createSyncJob"
    \/ \E i \in 1..Len(r.log) : r.log[i].kind = "create"

\* the terminal update of the call r has not resolved
NotFinalized(r) ==
    \A i \in 1..Len(r.log) :
        r.log[i].kind = "update" =>
            (r.log[i].payload.counts = Undefined \/ ~r.log[i].ok)

\* the records the call r has handed to the bulk store in a resolved load
Loaded(r) ==
    UNION {SeqToSet(r.log[i].batch) :
             i \in {j \in 1..Len(r.log) : r.log[j].kind = "bulk" /\ r.log[j].ok}}

\* C28: two runs of the same job type that execute concurrently without
\* explicit bounds are not kept apart: as long as neither has finalized, both
\* resolve their window from the same last resumable job, so both windows
\* start at its nextStartTime and overlap.
C28_ConcurrentRunsShareWindowStart ==
    (WindowResolved(RunState) /\ WindowResolved(other)
       /\ NotFinalized(RunState) /\ NotFinalized(other)) =>
        /\ jobType = other.jobType
        /\ startTime = ledger[1].nextStartTime[1]
        /\ other.startTime = startTime
        /\ startTime <= endTime /\ other.startTime <= other.endTime

\* two concurrent runs that both finalized, for windows with the same start,
\* having fetched and loaded the same record twice
C28_Witness ==
    /\ pc = "done" /\ other.pc = "done"
    /\ outcome.kind = "result" /\ other.outcome.kind = "result"
    /\ startTime = other.startTime
    /\ Loaded(RunState) \cap Loaded(other) # {}
    /\ Len(ledger) = 3
    /\ ledger[2].status = "success" /\ ledger[3].status = "success"
    /\ ledger[2].startTime = ledger[3].startTime
    /\ outcome.recordsDuplicated + other.outcome.recordsDuplicated > 0

\* C31: the change amount of a withdrawal is the upstream amount string with
\* "-" put in front and every character kept; the change amount of a deposit
\* is the upstream amount string itself.
C31_ChangeAmountKeepsString ==
    tx.kind = "transaction" =>
        /\ tx.operation = "withdraw" =>
              /\ Len(tx.change) = Len(tx.amount) + 1
              /\ tx.change[1] = "-"
              /\ \A i \in 1..Len(tx.amount) : tx.change[i + 1] = tx.amount[i]
        /\ tx.operation = "deposit" => tx.change = tx.amount

\* the withdrawal of "5.0" was transformed: its change is "-5.0"
C31_Witness ==
    /\ tx.kind = "transaction"
    /\ tx.operation = "withdraw"
    /\ tx.amount = <<"5", ".", "0">>
    /\ tx.change = <<"-", "5", ".", "0">>

\* every remote call of the run returned without an error
NoCallErrored ==
    \A i \in 1..Len(log) :
        /\ log[i].ok
        /\ log[i].kind = "create" => log[i].id # NoId

\* C32: a run in which no fetch, bulk-load or ledger call errors never
\* finalizes with status failed.
C32_NoFailedWithoutError ==
    NoCallErrored =>
        /\ \A i \in TerminalUpdates : log[i].payload.status # "failed"
        /\ (pc = "done" /\ outcome.kind = "result") => outcome.status # "failed"

\* the number of records the upstream returned in the first n calls of the log
RECURSIVE Fetched(_)
Fetched(n) ==
    IF n = 0 THEN 0
    ELSE Fetched(n - 1)
            + (IF log[n].kind = "fetch" /\ log[n].ok THEN Len(log[n].page) ELSE 0)

\* C33: at the finalization of a run that was not aborted recordsProcessed is
\* the number of records the upstream returned over all pages of the run, so
\* recordsFailed never exceeds recordsProcessed.
C33_ProcessedCountsEveryRecord ==
    \A i \in TerminalUpdates :
        /\ log[i].payload.counts[1] = Fetched(i)
        /\ log[i].payload.counts[4] <= log[i].payload.counts[1]

\* C34: the window start is taken from the job the ledger answered only when
\* that job carries a nextStartTime value: a job whose nextStartTime is absent
\* or null is not used, and the resolved window start is a timestamp.
C34_WindowStartIsTimestamp ==
    pc = "createSyncJob" =>
        /\ startTime # Null
        /\ \A i \in Of("last") :
              (log[i].ok /\ log[i].job # NoJob
                 /\ log[i].job.nextStartTime \in {Undefined, Some(Null)}) =>
                  /\ startTime = DefaultRange.startTime
                  /\ endTime = DefaultRange.endTime

\* the call before this one was aborted by a rejected history request; both
\* are syncs of the same job type without explicit bounds, made one after the
\* other, and this one has resolved its window
AfterAbortedRun ==
    /\ WindowResolved(RunState)
    /\ prev.kind = "run"
    /\ prev.fetchAborted
    /\ prev.jobType = jobType
    /\ prev.bounds = <<Undefined, Undefined>>
    /\ forceStartTime = Undefined /\ forceEndTime = Undefined
    /\ other.pc = "idle"

\* C35: after a run aborted by a fetch error, the next run of the job type
\* without explicit bounds resolves its window from the same last resumable
\* job: its window has the start the aborted run's window had, and its first
\* history request starts there again.
C35_AbortedRangeRequestedAgain ==
    AfterAbortedRun =>
        /\ startTime = prev.startTime
        /\ startTime = ledger[1].nextStartTime[1]
        /\ ledger[2].status = "failed" \/ ledger[2].nextStartTime = Undefined
        /\ \A i \in Of("fetch") : PrevFetch(i) = 0 => log[i].startTime = prev.startTime

\* the run after an aborted one has requested the history from the aborted
\* run's window start and finalized
C35_Witness ==
    /\ AfterAbortedRun
    /\ pc = "done"
    /\ outcome.kind = "result"
    /\ \E i \in Of("fetch") : log[i].ok /\ log[i].page # <<>>
                                 /\ log[i].startTime = prev.startTime
    /\ ledger[2].status = "failed"
    /\ ledger[3].nextStartTime # Undefined

\* C36: when every call returns, and the upstream returns only records of
\* the requested range, the cursor of the page loop strictly increases after
\* each full page and the run reaches its terminal ledger write and returns.
C36_PageLoopTerminates ==
    /\ [][(pc = "fetch" /\ pc' = "fetch" /\ chunkIdx' = chunkIdx) =>
              chunkStartTime' > chunkStartTime]_vars
    /\ (pc = "createSyncJob") ~>
          (pc = "done" /\ outcome.kind = "result" /\ TerminalUpdates # {})

\* a run that got a full page, requested the chunk again from a later cursor,
\* and reached its terminal write
C36_Witness ==
    /\ pc = "done"
    /\ outcome.kind = "result"
    /\ TerminalUpdates # {}
    /\ \E i, j \in Of("fetch") :
          /\ i < j
          /\ log[i].chunk = log[j].chunk
          /\ Len(log[i].page) = MAX_RECORDS_PER_REQUEST
          /\ log[j].startTime > log[i].startTime

\* C37: for a run that is not aborted, the status, the four counters and the
\* nextStartTime returned to the caller are those sent in the run's terminal
\* ledger update (and stored in its job row).
C37_ResultIsTerminalUpdate ==
    (pc = "done" /\ outcome.kind = "result") =>
        /\ Cardinality(TerminalUpdates) = 1
        /\ \A i \in TerminalUpdates :
              /\ log[i].ok
              /\ log[i].id = syncJobId
              /\ log[i].payload.status = outcome.status
              /\ log[i].payload.counts =
                    <<outcome.recordsProcessed, outcome.recordsInserted,
                      outcome.recordsDuplicated, outcome.recordsFailed>>
              /\ log[i].payload.nextStartTime = outcome.nextStartTime
        /\ ledger[syncJobId].status = outcome.status
        /\ ledger[syncJobId].counts[1] = outcome.recordsProcessed
        /\ ledger[syncJobId].nextStartTime = outcome.nextStartTime

\* a run returned partial with records inserted, duplicated and failed
C37_Witness ==
    /\ pc = "done"
    /\ outcome.kind = "result"
    /\ outcome.status = "partial"
    /\ outcome.recordsFailed > 0
    /\ outcome.recordsInserted > 0
    /\ outcome.recordsProcessed > outcome.recordsInserted
    /\ \E i \in TerminalUpdates : log[i].payload.status = "partial"

====
